---------------------------- MODULE Spec2Model ----------------------------
(***************************************************************************)
(* Fetal-Monitoring-System: the rate estimators (calculateBPM of           *)
(* utils/dataStorage and the peak scan inside HeartRateMonitor) and the    *)
(* sustained-alarm classifier of HeartRateMonitor, as a state machine.     *)
(*                                                                         *)
(* Times are milliseconds (Date.now()).  Sample indices are the 0-based    *)
(* JavaScript indices; a signal is a TLA+ sequence s with s[j + 1] the     *)
(* sample at JavaScript index j.  A rate is kept exact as the fraction     *)
(* num / den, so that comparisons with the thresholds and Math.round are   *)
(* the ones of real arithmetic.                                            *)
(***************************************************************************)
EXTENDS Integers, Sequences, FiniteSets, TLC

(***************************************************************************)
(* Program constants.                                                      *)
(***************************************************************************)
MinSamples == 100
WindowSamples == 1250
Margin == 10
SamplesPerSecond == 250
RetentionMs == 10000
CriticalSustainMs == 5000
WarningSustainMs == 3000
TestSamplesPerSwitch == 500

(***************************************************************************)
(* Bounds of the model.                                                    *)
(***************************************************************************)
\* effect runs of one HeartRateMonitor in a behaviour of Spec
MaxEffects == 3
\* effect runs in a behaviour of SpecEstimator
MaxEstimates == 2
\* seconds an AlarmTestSuite scenario is run for in SpecTest
TestSeconds == 20
\* Date.now() when the monitor is mounted
StartTime == 20000

\* time that may pass between two runs of the rate effect
Steps == {0, 2000, 3000, 5000, 11000}

(***************************************************************************)
(* Sample windows.  A window is described by its length, the indices that  *)
(* hold a tall sample (4), the indices that hold a small one (1), and, for *)
(* a train of equally spaced isolated peaks, the spacing (0 otherwise);    *)
(* every other sample is 0, but for those of middle height (3) that a      *)
(* window may be given.                                                    *)
(***************************************************************************)
Train(first, period, len) ==
  {first + k * period : k \in 0..((len - 1 - first) \div period)}

W(len, hi, lo, period) ==
  [len |-> len, hi |-> hi, lo |-> lo, period |-> period, mid |-> {}]

\* the window w with a sample of middle height (3) at the indices mid
WithMid(w, mid) == [w EXCEPT !.mid = mid]

PeriodicWindow(period) == W(1250, Train(20, period, 1250), {}, period)

WindowTable ==
  [ empty   |-> W(0, {}, {}, 0),
    short   |-> W(99, Train(20, 30, 99), {}, 30),
    zero    |-> W(1250, {}, {}, 0),
    flat    |-> W(1250, 0..1249, {}, 0),
    one     |-> W(1250, {600}, {}, 0),
    two     |-> W(300, {50, 175}, {}, 125),
    p40     |-> PeriodicWindow(40),
    p50     |-> PeriodicWindow(50),
    p51     |-> PeriodicWindow(51),
    p81     |-> PeriodicWindow(81),
    p91     |-> PeriodicWindow(91),
    p107    |-> PeriodicWindow(107),
    p111    |-> PeriodicWindow(111),
    p125    |-> PeriodicWindow(125),
    p136    |-> PeriodicWindow(136),
    p143    |-> PeriodicWindow(143),
    p150    |-> PeriodicWindow(150),
    p158    |-> PeriodicWindow(158),
    p250    |-> PeriodicWindow(250),
    p300    |-> PeriodicWindow(300),
    p499    |-> PeriodicWindow(499),
    p500    |-> PeriodicWindow(500),
    p600    |-> PeriodicWindow(600),
    p1225   |-> PeriodicWindow(1225),
    edge    |-> W(1250, Train(5, 107, 1250), {}, 107),
    twave   |-> W(1250, Train(20, 125, 1250), Train(50, 125, 1250), 125),
    mixed   |-> W(1250, {20, 120, 720, 820}, {}, 0),
    pair    |-> W(1250, {600, 602}, {}, 0),
    shoulder |-> WithMid(W(1250, {200, 610}, {}, 0), {600}) ]

WindowNames == DOMAIN WindowTable

\* what an acquisition tick can deliver: it appends at least one sample
AcquiredWindows == WindowNames \ {"empty"}

SignalOf(name) ==
  LET w == WindowTable[name]
  IN  [j \in 1..w.len |->
         IF (j - 1) \in w.hi THEN 4
         ELSE IF (j - 1) \in w.mid THEN 3
         ELSE IF (j - 1) \in w.lo THEN 1 ELSE 0]

(***************************************************************************)
(* Helpers on sequences and fractions.                                     *)
(***************************************************************************)
Range(s) == {s[i] : i \in 1..Len(s)}

MaxOf(S) == CHOOSE m \in S : \A x \in S : x <= m

MinOf(S) == CHOOSE m \in S : \A x \in S : m <= x

RECURSIVE SortedSeq(_)
SortedSeq(S) ==
  IF S = {} THEN <<>> ELSE <<MinOf(S)>> \o SortedSeq(S \ {MinOf(S)})

RECURSIVE Sum(_)
Sum(s) == IF s = <<>> THEN 0 ELSE Head(s) + Sum(Tail(s))

\* Math.round of the positive fraction num / den: floor(x + 1/2)
Round(num, den) == (2 * num + den) \div (2 * den)

\* Array.prototype.slice(-n): the last n elements
SliceLast(s, n) ==
  IF Len(s) <= n THEN s ELSE SubSeq(s, Len(s) - n + 1, Len(s))


(***************************************************************************)
(* Peak scan, shared by calculateBPM and HeartRateMonitor.                 *)
(***************************************************************************)
\* (mutant: the threshold is the maximum itself, not 50% of it)
AboveThreshold_NoHalf(v, mx) == v > mx

\* signal[i] > threshold, with threshold = Math.max(...signal) * 0.5
AboveThreshold(v, mx) == 2 * v > mx

\* signal.slice(i - 10, i + 10).every((v, idx) => idx === 10 || v <= signal[i])
IsLocalMax(s, i) ==
  \A k \in (i - Margin)..(i + Margin - 1) : k = i \/ s[k + 1] <= s[i + 1]

IsPeak(s, i, mx) ==
  /\ AboveThreshold(s[i + 1], mx)
  /\ s[i + 1] > s[i]
  /\ s[i + 1] > s[i + 2]
  /\ IsLocalMax(s, i)

\* for (let i = 10; i < signal.length - 10; i++) ... peaks.push(i)
ScanRange(s) == Margin..(Len(s) - Margin - 1)

FindPeaks(s) ==
  LET mx == MaxOf(Range(s))
  IN  SortedSeq({i \in ScanRange(s) : IsPeak(s, i, mx)})

\* peaks[i] - peaks[i - 1], in samples
Intervals(peaks) == [i \in 1..(Len(peaks) - 1) |-> peaks[i + 1] - peaks[i]]

(***************************************************************************)
(* calculateBPM(signal, samplingRate): 0 when there is no estimate.        *)
(***************************************************************************)
\* interval > 0.2 && interval < 2.0, interval = d / samplingRate seconds
PlausibleInterval(d, samplingRate) == 5 * d > samplingRate /\ d < 2 * samplingRate

calculateBPM(signal, samplingRate) ==
  IF Len(signal) < MinSamples THEN 0
  ELSE LET peaks == FindPeaks(signal)
       IN  IF Len(peaks) < 2 THEN 0
           ELSE LET Keep(d) == PlausibleInterval(d, samplingRate)
                    intervals == SelectSeq(Intervals(peaks), Keep)
                IN  IF Len(intervals) = 0 THEN 0
                    ELSE Round(60 * samplingRate * Len(intervals), Sum(intervals))

(***************************************************************************)
(* The estimate inside HeartRateMonitor's rate effect: beatsPerMinute as   *)
(* the fraction num / den, or ok = FALSE when the effect returns early     *)
(* (data.length < 100) or skips the update (peaks.length < 2).             *)
(***************************************************************************)
NoEstimate == [ok |-> FALSE, num |-> 0, den |-> 1, peaks |-> <<>>]

\* (mutant: three peaks are asked for)
EnoughPeaks_Three(peaks) == Len(peaks) >= 3

EnoughPeaks(peaks) == Len(peaks) >= 2

HRMEstimate(signal) ==
  IF Len(signal) < MinSamples THEN NoEstimate
  ELSE LET peaks == FindPeaks(SliceLast(signal, WindowSamples))
       IN  IF ~EnoughPeaks(peaks) THEN [NoEstimate EXCEPT !.peaks = peaks]
           ELSE LET intervals == Intervals(peaks)
                IN  [ok |-> TRUE,
                     num |-> 60 * SamplesPerSecond * Len(intervals),
                     den |-> Sum(intervals),
                     peaks |-> peaks]

\* both estimators on every window of the table, computed once
EstimateTable == [n \in WindowNames |-> HRMEstimate(SignalOf(n))]

BPMTable == [n \in WindowNames |-> calculateBPM(SignalOf(n), SamplesPerSecond)]

(***************************************************************************)
(* The alarm classifier inside HeartRateMonitor's rate effect.             *)
(***************************************************************************)
Thresholds(t) ==
  IF t = "maternal"
  THEN [criticalLow |-> 40, warningLow |-> 50, normalLow |-> 60,
        normalHigh |-> 100, warningHigh |-> 120, criticalHigh |-> 140]
  ELSE [criticalLow |-> 100, warningLow |-> 110, normalLow |-> 120,
        normalHigh |-> 160, warningHigh |-> 170, criticalHigh |-> 180]

\* (mutant: the warning band is tested before the critical one)
InstantaneousStatus_WarningFirst(num, den, th) ==
  IF num < th.warningLow * den \/ num > th.warningHigh * den THEN "warning"
  ELSE IF num < th.criticalLow * den \/ num > th.criticalHigh * den THEN "critical"
  ELSE "normal"

\* (mutant: the warning boundaries are inclusive)
InstantaneousStatus_Inclusive(num, den, th) ==
  IF num < th.criticalLow * den \/ num > th.criticalHigh * den THEN "critical"
  ELSE IF num <= th.warningLow * den \/ num >= th.warningHigh * den THEN "warning"
  ELSE "normal"

\* (mutant: the warning band starts at the normal range's limits)
InstantaneousStatus_NormalLimits(num, den, th) ==
  IF num < th.criticalLow * den \/ num > th.criticalHigh * den THEN "critical"
  ELSE IF num < th.normalLow * den \/ num > th.normalHigh * den THEN "warning"
  ELSE "normal"

\* beatsPerMinute = num / den against the thresholds
InstantaneousStatus(num, den, th) ==
  IF num < th.criticalLow * den \/ num > th.criticalHigh * den THEN "critical"
  ELSE IF num < th.warningLow * den \/ num > th.warningHigh * den THEN "warning"
  ELSE "normal"

\* while (history.length > 0 && history[0].timestamp < tenSecondsAgo) shift()
RECURSIVE DropOld(_, _)
DropOld(h, cutoff) ==
  IF h # <<>> /\ Head(h).timestamp < cutoff THEN DropOld(Tail(h), cutoff) ELSE h

\* (mutant: the entry is appended and nothing is dropped)
PushAndPrune_NoPrune(h, inst, t) ==
  Append(h, [status |-> inst, timestamp |-> t])

PushAndPrune(h, inst, t) ==
  DropOld(Append(h, [status |-> inst, timestamp |-> t]), t - RetentionMs)

\* Array.prototype.find: the first element passing the test, if any
\* (hits: the indices of the elements that pass the callback)
Find(h, hits) ==
  IF hits = {} THEN [found |-> FALSE, timestamp |-> 0]
  ELSE [found |-> TRUE, timestamp |-> h[MinOf(hits)].timestamp]

\* found?.timestamp || now - 10000   (undefined and 0 are both falsy)
ReferenceTime(f, t) ==
  IF f.found /\ f.timestamp # 0 THEN f.timestamp ELSE t - RetentionMs

NotCritical(e) == e.status # "critical"

IsNormal(e) == e.status = "normal"

\* (mutant: the sustain threshold is exclusive)
CriticalSustained_Exclusive(duration) == duration > CriticalSustainMs

CriticalSustained(duration) == duration >= CriticalSustainMs

WarningSustained(duration) == duration >= WarningSustainMs

\* (mutant: a sustained warning is reported as critical)
FinalStatus_WarningEscalates(inst, h, t) ==
  IF inst = "critical"
  THEN LET criticalDuration == t - ReferenceTime(Find(h, {i \in 1..Len(h) : NotCritical(h[i])}), t)
       IN  IF CriticalSustained(criticalDuration) THEN "critical" ELSE "warning"
  ELSE IF inst = "warning"
  THEN LET abnormalDuration == t - ReferenceTime(Find(h, {i \in 1..Len(h) : IsNormal(h[i])}), t)
       IN  IF WarningSustained(abnormalDuration) THEN "critical" ELSE "normal"
  ELSE "normal"

FinalStatus(inst, h, t) ==
  IF inst = "critical"
  THEN LET criticalDuration == t - ReferenceTime(Find(h, {i \in 1..Len(h) : NotCritical(h[i])}), t)
       IN  IF CriticalSustained(criticalDuration) THEN "critical" ELSE "warning"
  ELSE IF inst = "warning"
  THEN LET abnormalDuration == t - ReferenceTime(Find(h, {i \in 1..Len(h) : IsNormal(h[i])}), t)
       IN  IF WarningSustained(abnormalDuration) THEN "warning" ELSE "normal"
  ELSE "normal"

(***************************************************************************)
(* SignalProcessor (utils/signalNormalization.ts): the filter chain.       *)
(* A sample is a fixed-point number, an integer count of thousandths; a    *)
(* coefficient is an integer count of hundred-thousandths; NaN is the one  *)
(* non-finite value, and every arithmetic operation with a NaN operand     *)
(* gives NaN, as in IEEE 754.  The doubles of the code are rounded to      *)
(* these grids: a product is rounded to the nearest thousandth.            *)
(***************************************************************************)
ValueScale == 1000
CoefScale == 100000

\* Number.NaN
NaN == -999999999

IsFinite(v) == v # NaN

\* c * v for the coefficient c and the sample v, to the nearest thousandth
\* (the product is taken by parts so that it stays within 32 bits)
Times(c, v) ==
  IF v = NaN THEN NaN
  ELSE LET a == c * (v \div ValueScale)
           b == c * (v % ValueScale) + CoefScale \div 2
       IN  (a \div (CoefScale \div ValueScale))
             + ((a % (CoefScale \div ValueScale)) * ValueScale + b) \div CoefScale

\* the sum of the terms, NaN if one of them is NaN
Plus(terms) ==
  IF \E i \in 1..Len(terms) : terms[i] = NaN THEN NaN ELSE Sum(terms)

Negated(v) == IF v = NaN THEN NaN ELSE -v

\* (mutant: a pole radius above 1)
initNotchFilter_Unstable ==
  [b0 |-> 100000, b1 |-> -12558, b2 |-> 100000, a1 |-> -12433, a2 |-> 198010,
   x1 |-> 0, x2 |-> 0, y1 |-> 0, y2 |-> 0]

\* initNotchFilter(60) at 250 Hz: w0 = 2 pi 60 / 250, r = 0.99
initNotchFilter ==
  [b0 |-> 100000, b1 |-> -12558, b2 |-> 100000, a1 |-> -12433, a2 |-> 98010,
   x1 |-> 0, x2 |-> 0, y1 |-> 0, y2 |-> 0]

\* initLowpassFilter(40) at 250 Hz
initLowpassFilter ==
  [b0 |-> 14532, b1 |-> 29063, b2 |-> 14532, a1 |-> -67099, a2 |-> 25225,
   x1 |-> 0, x2 |-> 0, y1 |-> 0, y2 |-> 0]

\* initHighpassFilter(0.5) at 250 Hz
initHighpassFilter ==
  [b0 |-> 99115, b1 |-> -198230, b2 |-> 99115, a1 |-> -198223, a2 |-> 98238,
   x1 |-> 0, x2 |-> 0, y1 |-> 0, y2 |-> 0]

\* y = b0 x + b1 x1 + b2 x2 - a1 y1 - a2 y2, then the delay line moves on
ApplySection(x, state) ==
  LET y == Plus(<<Times(state.b0, x), Times(state.b1, state.x1),
                  Times(state.b2, state.x2), Negated(Times(state.a1, state.y1)),
                  Negated(Times(state.a2, state.y2))>>)
  IN  [y |-> y,
       state |-> [state EXCEPT !.x2 = state.x1, !.x1 = x,
                               !.y2 = state.y1, !.y1 = y]]

applyNotchFilter(x, state) == ApplySection(x, state)

applyLowpassFilter(x, state) == ApplySection(x, state)

applyHighpassFilter(x, state) == ApplySection(x, state)

MedianWindow == 5

\* this.buffer after applyMedianFilter(sample)
MedianBuffer(buffer, sample) ==
  LET pushed == Append(buffer, sample)
  IN  IF Len(pushed) > MedianWindow THEN Tail(pushed) ELSE pushed

\* (mutant: the slots not filled yet count as zeros and the median of the
\* five is returned from the first call on)
MedianOutcomes_ZeroPadded(buffer, sample) ==
  LET padded == [i \in 1..MedianWindow |->
                   IF i <= MedianWindow - Len(buffer) THEN 0
                   ELSE buffer[i - (MedianWindow - Len(buffer))]]
  IN  IF \E i \in 1..Len(buffer) : buffer[i] = NaN THEN Range(buffer)
      ELSE {m \in Range(padded) :
              /\ Cardinality({i \in 1..MedianWindow : padded[i] < m}) <= 2
              /\ Cardinality({i \in 1..MedianWindow : padded[i] <= m}) >= 3}

\* what applyMedianFilter(sample) can return, buffer being this.buffer after
\* the push: sorted[2] of the five values.  With a NaN among them the
\* comparator (a, b) => a - b is inconsistent and the sort order is
\* implementation-defined, so that any of the five may be returned.
MedianOutcomes(buffer, sample) ==
  IF Len(buffer) < MedianWindow THEN {sample}
  ELSE IF \E i \in 1..Len(buffer) : buffer[i] = NaN THEN Range(buffer)
  ELSE {m \in Range(buffer) :
          /\ Cardinality({i \in 1..Len(buffer) : buffer[i] < m}) <= 2
          /\ Cardinality({i \in 1..Len(buffer) : buffer[i] <= m}) >= 3}

\* new SignalProcessor(250)
NewSignalProcessor ==
  [buffer |-> <<>>, baselineBuffer |-> <<>>,
   notchFilterState |-> initNotchFilter,
   lowpassFilterState |-> initLowpassFilter,
   highpassFilterState |-> initHighpassFilter]

\* the processor after processSample(sample), and what the three recursive
\* stages hand to the median filter
AfterSample(p, sample) ==
  LET n == applyNotchFilter(sample, p.notchFilterState)
      l == applyLowpassFilter(n.y, p.lowpassFilterState)
      h == applyHighpassFilter(l.y, p.highpassFilterState)
  IN  [filtered |-> h.y,
       processor |-> [p EXCEPT !.notchFilterState = n.state,
                               !.lowpassFilterState = l.state,
                               !.highpassFilterState = h.state,
                               !.buffer = MedianBuffer(p.buffer, h.y)]]

Zeroed(state) == [state EXCEPT !.x1 = 0, !.x2 = 0, !.y1 = 0, !.y2 = 0]

\* (mutant: the median buffer is left as it is)
reset_KeepsBuffer(p) ==
  [p EXCEPT !.baselineBuffer = <<>>,
            !.notchFilterState = Zeroed(p.notchFilterState),
            !.lowpassFilterState = Zeroed(p.lowpassFilterState),
            !.highpassFilterState = Zeroed(p.highpassFilterState)]

\* (mutant: the high-pass delay line is left as it is)
reset_KeepsHighpass(p) ==
  [p EXCEPT !.buffer = <<>>, !.baselineBuffer = <<>>,
            !.notchFilterState = Zeroed(p.notchFilterState),
            !.lowpassFilterState = Zeroed(p.lowpassFilterState)]

\* SignalProcessor.reset()
reset(p) ==
  [p EXCEPT !.buffer = <<>>, !.baselineBuffer = <<>>,
            !.notchFilterState = Zeroed(p.notchFilterState),
            !.lowpassFilterState = Zeroed(p.lowpassFilterState),
            !.highpassFilterState = Zeroed(p.highpassFilterState)]

(***************************************************************************)
(* The HeartRateMonitors of App (main.tsx:677-690): one for the fetal and  *)
(* one for the maternal signal, each with its own useState values.         *)
(***************************************************************************)
Signals == {"maternal", "fetal"}

\* the useState initial values of a HeartRateMonitor, and an empty data prop
NewMonitor ==
  [data |-> "empty", heartRate |-> 0, status |-> "normal",
   abnormalStatusHistory |-> <<>>]

\* the monitor of signal s after a run of its rate effect at time t
AfterEffect(m, s, t) ==
  LET est == EstimateTable[m.data]
  IN  IF ~est.ok THEN m
      ELSE LET inst == InstantaneousStatus(est.num, est.den, Thresholds(s))
               h == PushAndPrune(m.abnormalStatusHistory, inst, t)
           IN  [m EXCEPT !.heartRate = Round(est.num, est.den),
                         !.abnormalStatusHistory = h,
                         !.status = FinalStatus(inst, h, t)]

(***************************************************************************)
(* State.                                                                  *)
(***************************************************************************)
VARIABLES
  type,                   \* the monitor's type prop: "maternal" or "fetal"
  data,                   \* the window in the data prop (a name of WindowTable)
  storedBPM,              \* <<calculateBPM of the window>>, as stored with the
                          \* latest data point (<<>>: nothing stored yet)
  heartRate,              \* useState heartRate (0 until the first estimate)
  status,                 \* useState status: the status last emitted
  abnormalStatusHistory,  \* the classification history
  now,                    \* Date.now()
  activeScenario,         \* AlarmTestSuite: the scenario being run
  sampleCount,            \* AlarmTestSuite: samples generated so far
  effects,                \* history variable: runs of the rate effect so far
  lastRun,                \* history variable: what the last run of the effect
                          \* did: "none" (no run yet), "skip" or "update"
  rendered,               \* history variable: the window the last run was given
  bpm,                    \* history variable: beatsPerMinute of the last update
  critSince               \* history variable: when the current unbroken run of
                          \* instantaneous-critical updates began (-1: no run)

\* App (main.tsx): the acquisition loop and its controls
VARIABLES
  strictMode,             \* the build runs React.StrictMode's development
                          \* checks (npm run dev) or not (a production bundle)
  isMonitoring,           \* useState isMonitoring
  isDevelopmentMode,      \* useState isDevelopmentMode
  dataSource,             \* useState dataSource
  isConnected,            \* useArduinoSerial: isConnected
  connecting,             \* handleConnectArduino is awaiting connectArduino()
  disconnecting,          \* disconnectArduino() is awaiting the port's closing
  queued,                 \* samples in the serial queue (hasQueuedData)
  ekgData,                \* useState ekgData, as the numbers of its points
  bpmCalculationWindow,   \* the two BPM windows, as the numbers of the points
                          \* their samples came from
  storedLength,           \* storedDataRef.current.length
  sampleCounter,          \* sampleCounter.current
  processed,              \* samples signalProcessorRef has processed since it
                          \* was constructed or reset
  ticks,                  \* history variable: interval callbacks that have
                          \* produced points so far
  produced,               \* history variable: data points produced so far
  since,                  \* history variable: points produced since each
                          \* window was last emptied
  appended,               \* history variable: the points appended so far, by
                          \* source, mode and stage of each field
  handed                  \* history variable: stage of the samples handed to
                          \* the rate estimators, by signal

\* monitoring sessions
VARIABLES
  appStatus,              \* App's useState fetalStatus or maternalStatus: the
                          \* one the monitor's onStatusChange sets
  sessionNo,              \* history variable: monitoring sessions started
  updatesInSession,       \* history variable: updates of the monitor since
                          \* the current session started
  stale                   \* history variable: entries of the classification
                          \* history recorded before the current session
                          \* started (they are its oldest entries)

sessionVars == <<sessionNo, updatesInSession, stale, appStatus>>

\* the filter chain
VARIABLES
  processor,              \* a SignalProcessor in use (signalProcessorRef)
  twin,                   \* a SignalProcessor constructed when processor was
                          \* last reset, and given the same samples since
  sample,                 \* the sample last passed to processSample since
                          \* the last reset (0: none yet)
  filtered,               \* what processSample returned for it
  twinFiltered,           \* what the twin's processSample returned for it
  fed,                    \* history variable: processSample calls so far
  wasReset,               \* history variable: reset() has been called
  nonFinite               \* history variable: a non-finite sample has been
                          \* passed to processor since it was last reset

\* the two HeartRateMonitors that App renders
VARIABLES
  monitors,               \* by signal: the data prop (a window name) and the
                          \* heartRate, status and abnormalStatusHistory of
                          \* the HeartRateMonitor of that signal
  alone,                  \* by signal: the same monitor, given the same data
                          \* at the same times, in an App that renders no
                          \* other monitor
  pairNow,                \* Date.now() of the latest commit
  rerender,               \* the monitors that the state set in the latest
                          \* commit renders again
  aloneRerender,          \* the same for each monitor rendered alone
  acquisitions,           \* history variable: data points delivered so far
  pairStep                \* history variable: what the latest commit came
                          \* from: "none", "acquire" or "rerender"

filterVars ==
  <<processor, twin, sample, filtered, twinFiltered, fed, wasReset, nonFinite>>

pairVars ==
  <<monitors, alone, pairNow, rerender, aloneRerender, acquisitions, pairStep>>

monitorVars ==
  <<type, data, storedBPM, heartRate, status, abnormalStatusHistory, now,
    activeScenario, sampleCount, effects, lastRun, rendered, bpm, critSince>>

appVars ==
  <<strictMode, isMonitoring, isDevelopmentMode, dataSource, isConnected,
    connecting, disconnecting, queued, ekgData, bpmCalculationWindow,
    storedLength, sampleCounter, processed, ticks, produced, since, appended,
    handed>>

\* what the actions of the monitor alone leave unchanged
idle == <<appVars, sessionVars, filterVars, pairVars>>

\* what the actions of App alone leave unchanged
appIdle == <<monitorVars, sessionVars, filterVars, pairVars>>

vars == <<monitorVars, appVars, sessionVars, filterVars, pairVars>>

testVars == <<activeScenario, sampleCount>>

InitMonitor ==
  /\ data = "empty"
  /\ storedBPM = <<>>
  /\ heartRate = 0
  /\ status = "normal"
  /\ abnormalStatusHistory = <<>>
  /\ now = StartTime
  /\ sampleCount = 0
  /\ effects = 0
  /\ lastRun = "none"
  /\ rendered = "empty"
  /\ bpm = [num |-> 0, den |-> 1]
  /\ critSince = -1

\* App's useState / useRef initial values
InitApp ==
  /\ isMonitoring = FALSE
  /\ isDevelopmentMode = TRUE
  /\ dataSource = "raw"
  /\ isConnected = FALSE
  /\ connecting = FALSE
  /\ disconnecting = FALSE
  /\ queued = 0
  /\ ekgData = <<>>
  /\ bpmCalculationWindow = [maternal |-> <<>>, fetal |-> <<>>]
  /\ storedLength = 0
  /\ sampleCounter = 0
  /\ processed = 0
  /\ ticks = 0
  /\ produced = 0
  /\ since = [ekgData |-> 0, maternal |-> 0, fetal |-> 0]
  /\ appended = {}
  /\ handed = {}

\* the history variables of the other specifications
InitOthers ==
  /\ sessionNo = 0
  /\ appStatus = "normal"
  /\ updatesInSession = 0
  /\ stale = 0
  /\ processor = NewSignalProcessor
  /\ twin = NewSignalProcessor
  /\ fed = 0
  /\ wasReset = FALSE
  /\ nonFinite = FALSE
  /\ sample = 0
  /\ filtered = 0
  /\ twinFiltered = 0
  /\ monitors = [s \in Signals |-> NewMonitor]
  /\ alone = [s \in Signals |-> NewMonitor]
  /\ pairNow = StartTime
  /\ rerender = {}
  /\ aloneRerender = {}
  /\ acquisitions = 0
  /\ pairStep = "none"

Init ==
  /\ type \in {"maternal", "fetal"}
  /\ activeScenario = "normal-fetal"
  /\ InitMonitor
  /\ strictMode = FALSE
  /\ InitApp
  /\ InitOthers

(***************************************************************************)
(* The acquisition tick delivers a new window: the data prop changes and   *)
(* calculateBPM of the window is stored with the data point.               *)
(***************************************************************************)
Acquire(w) ==
  /\ data' = w
  /\ storedBPM' = <<BPMTable[w]>>
  /\ UNCHANGED <<type, heartRate, status, abnormalStatusHistory, now,
                 effects, lastRun, rendered, bpm, critSince>>

(***************************************************************************)
(* HeartRateMonitor's rate effect, run dt milliseconds after the previous  *)
(* one on the window in the data prop.                                     *)
(***************************************************************************)
RateEffect(dt) ==
  LET t == now + dt
      est == EstimateTable[data]
  IN  /\ now' = t
      /\ effects' = effects + 1
      /\ rendered' = data
      /\ IF ~est.ok
         THEN /\ lastRun' = "skip"
              /\ UNCHANGED <<heartRate, status, abnormalStatusHistory, bpm, critSince>>
         ELSE LET inst == InstantaneousStatus(est.num, est.den, Thresholds(type))
                  h == PushAndPrune(abnormalStatusHistory, inst, t)
              IN  /\ heartRate' = Round(est.num, est.den)
                  /\ abnormalStatusHistory' = h
                  /\ status' = FinalStatus(inst, h, t)
                  /\ lastRun' = "update"
                  /\ bpm' = [num |-> est.num, den |-> est.den]
                  /\ critSince' = IF inst # "critical" THEN -1
                                  ELSE IF critSince = -1 THEN t ELSE critSince
      /\ UNCHANGED <<type, data, storedBPM>>

(***************************************************************************)
(* Spec: one monitor fed windows whose rates cover every band of both      *)
(* threshold profiles, re-evaluated at arbitrary intervals.                *)
(***************************************************************************)
AlarmWindows == {"zero", "p81", "p111", "p125", "p150", "p300"}

Next ==
  \/ \E w \in AlarmWindows : Acquire(w) /\ UNCHANGED <<testVars, idle>>
  \/ \E dt \in Steps : effects < MaxEffects /\ RateEffect(dt) /\ UNCHANGED <<testVars, idle>>

Spec == Init /\ [][Next]_vars

(***************************************************************************)
(* SpecEstimator: both estimators on every window of the table.            *)
(***************************************************************************)
NextEstimator ==
  \/ \E w \in AcquiredWindows : Acquire(w) /\ UNCHANGED <<testVars, idle>>
  \/ effects < MaxEstimates /\ RateEffect(1000) /\ UNCHANGED <<testVars, idle>>

SpecEstimator == Init /\ [][NextEstimator]_vars

(***************************************************************************)
(* SpecTest: AlarmTestSuite runs one scenario on a fetal monitor.  One     *)
(* TestTick stands for a second of generated samples (250 interval         *)
(* callbacks); the window it delivers is a train of beats at the           *)
(* scenario's baseHeartRate for that second, and the monitor's effect runs *)
(* once on it, so that the monitor is updated once per second.             *)
(***************************************************************************)
Scenarios ==
  {"normal-fetal", "borderline-low", "critical-low", "critical-high",
   "warning-low", "warning-high", "intermittent-spike"}

\* generateTestData: baseHeartRate of the scenario at sample number time
BaseHeartRate(scenario, time) ==
  CASE scenario = "normal-fetal"       -> 135
    [] scenario = "borderline-low"     -> 110
    [] scenario = "critical-low"       -> 95
    [] scenario = "critical-high"      -> 185
    [] scenario = "warning-low"        -> 105
    [] scenario = "warning-high"       -> 165
    [] scenario = "intermittent-spike" ->
         IF (time \div TestSamplesPerSwitch) % 2 = 0 THEN 135 ELSE 185
    [] OTHER                           -> 135

\* the window of beats every 60 / baseHeartRate seconds, to the nearest sample
TestWindow(rate) ==
  CHOOSE n \in WindowNames :
    WindowTable[n] = PeriodicWindow(Round(60 * SamplesPerSecond, rate))

TestTick ==
  /\ data' = TestWindow(BaseHeartRate(activeScenario, sampleCount))
  /\ sampleCount' = sampleCount + SamplesPerSecond
  /\ UNCHANGED <<type, storedBPM, heartRate, status, abnormalStatusHistory, now,
                 activeScenario, effects, lastRun, rendered, bpm, critSince>>

InitTest ==
  /\ type = "fetal"
  /\ activeScenario \in Scenarios
  /\ InitMonitor
  /\ strictMode = FALSE
  /\ InitApp
  /\ InitOthers

NextTest ==
  \/ /\ sampleCount = SamplesPerSecond * effects
     /\ effects < TestSeconds
     /\ TestTick
     /\ UNCHANGED idle
  \/ /\ sampleCount > SamplesPerSecond * effects
     /\ RateEffect(1000)
     /\ UNCHANGED <<testVars, idle>>

SpecTest == InitTest /\ [][NextTest]_vars

(***************************************************************************)
(* App (main.tsx): the acquisition loop, Start/Stop, Clear, the Arduino    *)
(* connection and the development/production switch.  A data point is      *)
(* known by its number (the points are numbered in the order in which the  *)
(* interval callback produces them); the value of each of its three fields *)
(* is known by the stage it has reached: "raw" as read from the source,    *)
(* "normalized" by normalizeArduinoSignal, "filtered" by processSample.    *)
(***************************************************************************)
maxDataPoints == 1250
BpmWindowSamples == 1250

\* interval callbacks that produce points in a behaviour of SpecApp
MaxTicks == 2

\* samples the serial port may deliver between two interval callbacks
SerialBatches == {1, 1249, 1250}

DataSources == {"raw", "simulated", "arduino"}

normalizeArduinoSignal(stage) == "normalized"

processSample(stage) == "filtered"

\* (mutant: the combined channel is stored as read)
NewDataPoint_CombinedAsRead(source) ==
  [mother |-> "raw", combined |-> "raw", fetus |-> "raw"]

\* newDataPoints.push({time, mother, combined: cleanedCombined, fetus})
NewDataPoint(source) ==
  IF source = "arduino"
  THEN [mother   |-> normalizeArduinoSignal("raw"),
        combined |-> processSample(normalizeArduinoSignal("raw")),
        fetus    |-> normalizeArduinoSignal("raw")]
  ELSE [mother   |-> "raw",
        combined |-> processSample("raw"),
        fetus    |-> "raw"]

\* newDataPoints.forEach: window.push(sample), then one window.shift() if
\* window.length > 1250.  Every push onto a window that is over-full shifts
\* once; otherwise the pushes shift once for every sample beyond 1250.
PushAll(window, new) ==
  LET all == window \o new
      shifts == IF Len(window) > BpmWindowSamples THEN Len(new)
                ELSE IF Len(all) > BpmWindowSamples THEN Len(all) - BpmWindowSamples
                ELSE 0
  IN  SubSeq(all, shifts + 1, Len(all))

\* the updater passed to setEKGData, invoked `times` times on the same prev
AppendPoints(k, source, times) ==
  LET new == [i \in 1..k |-> produced + i]
      point == NewDataPoint(source)
      once == [maternal |-> PushAll(bpmCalculationWindow.maternal, new),
               fetal    |-> PushAll(bpmCalculationWindow.fetal, new)]
      twice == [maternal |-> PushAll(once.maternal, new),
                fetal    |-> PushAll(once.fetal, new)]
  IN  /\ ekgData' = SliceLast(ekgData \o new, maxDataPoints)
      /\ bpmCalculationWindow' = IF times = 2 THEN twice ELSE once
      /\ storedLength' = storedLength + times * k
      /\ sampleCounter' = sampleCounter + k
      /\ processed' = processed + k
      /\ ticks' = ticks + 1
      /\ produced' = produced + k
      /\ since' = [w \in DOMAIN since |-> since[w] + k]
      /\ appended' = appended \cup
           {[source |-> source, production |-> ~isDevelopmentMode, stage |-> point]}
      /\ handed' = handed \cup
           {[signal |-> "maternal", stage |-> point.mother],
            [signal |-> "fetal", stage |-> point.fetus]}

\* the guards of the acquisition effect: the interval is running
AcquisitionRunning ==
  /\ isMonitoring
  /\ ~(~isDevelopmentMode /\ dataSource # "arduino")
  /\ ~(~isDevelopmentMode /\ ~isConnected)

\* how often React invokes the updater passed to setEKGData: once, or twice
\* under StrictMode's development checks
Invocations == IF strictMode THEN {1, 2} ELSE {1}

\* (mutant: the production branch takes the generator's sample)
SampleSource_ProductionSimulated(development, source) ==
  IF development THEN source ELSE "simulated"

\* where the interval callback takes its samples from: the serial queue in
\* production mode, and in development mode what dataSource selects
SampleSource(development, source) ==
  IF ~development THEN "arduino" ELSE source

\* an interval callback that produces points (one that finds no queued
\* Arduino data returns, or produces none and changes nothing)
Tick ==
  /\ AcquisitionRunning
  /\ ticks < MaxTicks
  /\ \E times \in Invocations :
       LET source == SampleSource(isDevelopmentMode, dataSource)
       IN  IF source = "arduino"
           THEN /\ queued > 0
                /\ AppendPoints(queued, "arduino", times)
                /\ queued' = 0
           ELSE /\ AppendPoints(1, source, times)
                /\ UNCHANGED queued
  /\ UNCHANGED <<strictMode, isMonitoring, isDevelopmentMode, dataSource,
                 isConnected, connecting, disconnecting>>

\* the serial read loop queues the k samples that arrived since the queue
\* was last emptied
SerialData(k) ==
  /\ isConnected
  /\ queued = 0
  /\ queued' = k
  /\ UNCHANGED <<strictMode, isMonitoring, isDevelopmentMode, dataSource,
                 isConnected, connecting, disconnecting, ekgData,
                 bpmCalculationWindow, storedLength, sampleCounter, processed,
                 ticks, produced, since, appended, handed>>

\* handleStartStop while not monitoring
Start ==
  /\ ~isMonitoring
  /\ ekgData' = <<>>
  /\ storedLength' = 0
  /\ bpmCalculationWindow' = [maternal |-> <<>>, fetal |-> <<>>]
  /\ sampleCounter' = 0
  /\ processed' = 0
  /\ isMonitoring' = TRUE
  /\ since' = [w \in DOMAIN since |-> 0]
  /\ UNCHANGED <<strictMode, isDevelopmentMode, dataSource, isConnected,
                 connecting, disconnecting, queued, ticks, produced, appended,
                 handed>>

\* handleStartStop while monitoring: with stored data the stop is confirmed in
\* the modal (handleStopConfirm, which empties the stored data and the BPM
\* windows after the export), without it the monitoring just stops
Stop ==
  /\ isMonitoring
  /\ isMonitoring' = FALSE
  /\ IF storedLength > 0
     THEN /\ storedLength' = 0
          /\ bpmCalculationWindow' = [maternal |-> <<>>, fetal |-> <<>>]
          /\ since' = [since EXCEPT !.maternal = 0, !.fetal = 0]
     ELSE UNCHANGED <<storedLength, bpmCalculationWindow, since>>
  /\ UNCHANGED <<strictMode, isDevelopmentMode, dataSource, isConnected,
                 connecting, disconnecting, queued, ekgData, sampleCounter,
                 processed, ticks, produced, appended, handed>>

\* performClear (handleClear, confirmed in the modal when there is data)
Clear ==
  /\ ekgData' = <<>>
  /\ sampleCounter' = 0
  /\ processed' = 0
  /\ since' = [since EXCEPT !.ekgData = 0]
  /\ UNCHANGED <<strictMode, isMonitoring, isDevelopmentMode, dataSource,
                 isConnected, connecting, disconnecting, queued,
                 bpmCalculationWindow, storedLength, ticks, produced, appended,
                 handed>>

\* handleConnectArduino in production mode, not connected: connectArduino()
\* is called and awaited
ConnectBegin ==
  /\ ~isDevelopmentMode
  /\ ~isConnected
  /\ ~connecting
  /\ connecting' = TRUE
  /\ UNCHANGED <<strictMode, isMonitoring, isDevelopmentMode, dataSource,
                 isConnected, disconnecting, queued, ekgData,
                 bpmCalculationWindow, storedLength, sampleCounter, processed,
                 ticks, produced, since, appended, handed>>

\* connectArduino() resolves: on success the hook has set isConnected and the
\* handler sets the data source
ConnectEnd(success) ==
  /\ connecting
  /\ connecting' = FALSE
  /\ IF success
     THEN isConnected' = TRUE /\ dataSource' = "arduino"
     ELSE UNCHANGED <<isConnected, dataSource>>
  /\ UNCHANGED <<strictMode, isMonitoring, isDevelopmentMode, disconnecting,
                 queued, ekgData, bpmCalculationWindow, storedLength,
                 sampleCounter, processed, ticks, produced, since, appended,
                 handed>>

\* handleConnectArduino in production mode, connected
Disconnect ==
  /\ ~isDevelopmentMode
  /\ isConnected
  /\ disconnecting' = TRUE
  /\ dataSource' = "simulated"
  /\ UNCHANGED <<strictMode, isMonitoring, isDevelopmentMode, isConnected,
                 connecting, queued, ekgData, bpmCalculationWindow,
                 storedLength, sampleCounter, processed, ticks, produced, since,
                 appended, handed>>

\* disconnectArduino() has closed the port: setIsConnected(false)
DisconnectEnd ==
  /\ disconnecting
  /\ disconnecting' = FALSE
  /\ isConnected' = FALSE
  /\ queued' = 0
  /\ UNCHANGED <<strictMode, isMonitoring, isDevelopmentMode, dataSource,
                 connecting, ekgData, bpmCalculationWindow, storedLength,
                 sampleCounter, processed, ticks, produced, since, appended,
                 handed>>

handleToggleDevelopmentMode ==
  /\ IF isConnected /\ ~isDevelopmentMode
     THEN disconnecting' = TRUE /\ dataSource' = "simulated"
     ELSE UNCHANGED <<disconnecting, dataSource>>
  /\ isDevelopmentMode' = ~isDevelopmentMode
  /\ UNCHANGED <<strictMode, isMonitoring, isConnected, connecting, queued,
                 ekgData, bpmCalculationWindow, storedLength, sampleCounter,
                 processed, ticks, produced, since, appended, handed>>

InitAppSpec ==
  /\ type = "fetal"
  /\ activeScenario = "normal-fetal"
  /\ InitMonitor
  /\ strictMode \in BOOLEAN
  /\ InitApp
  /\ InitOthers

NextApp ==
  \/ Tick /\ UNCHANGED appIdle
  \/ \E k \in SerialBatches : SerialData(k) /\ UNCHANGED appIdle
  \/ Start /\ UNCHANGED appIdle
  \/ Stop /\ UNCHANGED appIdle
  \/ Clear /\ UNCHANGED appIdle
  \/ ConnectBegin /\ UNCHANGED appIdle
  \/ \E success \in BOOLEAN : ConnectEnd(success) /\ UNCHANGED appIdle
  \/ Disconnect /\ UNCHANGED appIdle
  \/ DisconnectEnd /\ UNCHANGED appIdle
  \/ handleToggleDevelopmentMode /\ UNCHANGED appIdle

SpecApp == InitAppSpec /\ [][NextApp]_vars

(***************************************************************************)
(* SpecFilter: one SignalProcessor is fed samples and reset; from its      *)
(* reset on, a newly constructed one is fed the same samples.              *)
(***************************************************************************)
\* processSample calls in a behaviour of SpecFilter
MaxSamples == 9
\* the largest magnitude of a finite sample fed, in units
InputBound == 10

FilterInputs == {-InputBound * ValueScale, InputBound * ValueScale, NaN}

ProcessSample(x) ==
  /\ fed < MaxSamples
  /\ LET p == AfterSample(processor, x)
         t == AfterSample(twin, x)
     IN  /\ processor' = p.processor
         /\ twin' = IF wasReset THEN t.processor ELSE twin
         /\ filtered' \in MedianOutcomes(p.processor.buffer, p.filtered)
         /\ twinFiltered' \in
              IF ~wasReset THEN {twinFiltered}
              ELSE IF t.processor.buffer = p.processor.buffer /\ t.filtered = p.filtered
              THEN {filtered'}
              ELSE MedianOutcomes(t.processor.buffer, t.filtered)
  /\ sample' = x
  /\ fed' = fed + 1
  /\ nonFinite' = (nonFinite \/ ~IsFinite(x))
  /\ UNCHANGED wasReset

Reset ==
  /\ ~wasReset
  /\ fed > 0
  /\ processor' = reset(processor)
  /\ twin' = NewSignalProcessor
  /\ wasReset' = TRUE
  /\ nonFinite' = FALSE
  /\ sample' = 0
  /\ filtered' = 0
  /\ twinFiltered' = 0
  /\ UNCHANGED fed

filterIdle == <<monitorVars, appVars, sessionVars, pairVars>>

InitFilter ==
  /\ type = "fetal"
  /\ activeScenario = "normal-fetal"
  /\ InitMonitor
  /\ strictMode = FALSE
  /\ InitApp
  /\ InitOthers

NextFilter ==
  \/ \E x \in FilterInputs : ProcessSample(x) /\ UNCHANGED filterIdle
  \/ Reset /\ UNCHANGED filterIdle

SpecFilter == InitFilter /\ [][NextFilter]_vars

(***************************************************************************)
(* SpecSession: one HeartRateMonitor of App over monitoring sessions.  The *)
(* component stays mounted while App is, so its classification history     *)
(* lives across Stop, Start and Clear; App's handlers only empty the data  *)
(* prop.  While monitoring, the acquisition changes the window in the data *)
(* prop and the rate effect runs on it.                                    *)
(***************************************************************************)
\* monitoring sessions in a behaviour of SpecSession
MaxSessions == 2

SessionWindows == {"p81", "p111", "p150"}

SessionStart ==
  /\ sessionNo < MaxSessions
  /\ Start
  /\ data' = "empty"
  /\ sessionNo' = sessionNo + 1
  /\ updatesInSession' = 0
  /\ stale' = Len(abnormalStatusHistory)
  /\ UNCHANGED appStatus
  /\ UNCHANGED <<type, storedBPM, heartRate, status, abnormalStatusHistory, now,
                 testVars, effects, lastRun, rendered, bpm, critSince,
                 filterVars, pairVars>>

SessionStop ==
  /\ Stop
  /\ appStatus' = "normal"
  /\ UNCHANGED <<monitorVars, sessionNo, updatesInSession, stale, filterVars,
                 pairVars>>

SessionClear ==
  /\ Clear
  /\ data' = "empty"
  /\ UNCHANGED <<type, storedBPM, heartRate, status, abnormalStatusHistory, now,
                 testVars, effects, lastRun, rendered, bpm, critSince,
                 sessionNo, updatesInSession, stale, filterVars, pairVars>>
  /\ appStatus' = "normal"

SessionAcquire(w) ==
  /\ isMonitoring
  /\ Acquire(w)
  /\ UNCHANGED <<testVars, appVars, sessionVars, filterVars, pairVars>>

SessionEffect(dt) ==
  /\ isMonitoring
  /\ effects < MaxEffects
  /\ RateEffect(dt)
  /\ IF lastRun' = "update"
     THEN /\ updatesInSession' = updatesInSession + 1
          /\ stale' = LET dropped == Len(abnormalStatusHistory) + 1
                                       - Len(abnormalStatusHistory')
                      IN  IF dropped >= stale THEN 0 ELSE stale - dropped
     ELSE UNCHANGED <<updatesInSession, stale>>
  /\ appStatus' = IF lastRun' = "update" THEN status' ELSE appStatus
  /\ UNCHANGED <<testVars, appVars, sessionNo, filterVars, pairVars>>

\* a render of App while monitoring is stopped (the one that follows the
\* stop, or any later one): the monitor is rendered too, thresholds is a new
\* object, and the rate effect runs on the data that ekgData still holds
SessionRerender(dt) ==
  /\ ~isMonitoring
  /\ effects < MaxEffects
  /\ RateEffect(dt)
  /\ stale' = IF lastRun' = "update"
              THEN LET dropped == Len(abnormalStatusHistory) + 1
                                    - Len(abnormalStatusHistory')
                   IN  IF dropped >= stale THEN 0 ELSE stale - dropped
              ELSE stale
  /\ appStatus' = IF lastRun' = "update" THEN status' ELSE appStatus
  /\ UNCHANGED <<testVars, appVars, sessionNo, updatesInSession, filterVars,
                 pairVars>>

NextSession ==
  \/ SessionStart
  \/ SessionStop
  \/ SessionClear
  \/ \E w \in SessionWindows : SessionAcquire(w)
  \/ \E dt \in Steps : SessionEffect(dt)
  \/ \E dt \in Steps : SessionRerender(dt)

SpecSession == Init /\ [][NextSession]_vars

(***************************************************************************)
(* SpecPair: App with its two HeartRateMonitors.  Both are given the same  *)
(* ekgData, of which one reads the mother field and the other the fetus    *)
(* field.  The rate effect of a monitor lists thresholds among its         *)
(* dependencies, an object built anew by every render, so that the effect  *)
(* runs after every render of the monitor.  A monitor is rendered when its *)
(* data prop changes, when its own heartRate or status state changes, and  *)
(* when App is rendered; App is rendered when setFetalStatus or            *)
(* setMaternalStatus (the onStatusChange props) changes App's state.  App  *)
(* is never stopped here, so that its fetalStatus and maternalStatus are   *)
(* the statuses of the monitors.  Next to every monitor runs the same      *)
(* monitor rendered alone, in an App without the other one.                *)
(***************************************************************************)
\* data points delivered in a behaviour of SpecPair
MaxAcquisitions == 4

\* time between two deliveries of data that change a window's estimate
PairSteps == {2000, 8000}

\* milliseconds Date.now() advances between a commit and the commit of the
\* render its effects caused
RenderDelays == {0, 1}

\* the windows of the mother and of the fetus field: a normal rate and an
\* abnormal one for each threshold profile
FieldWindows == [maternal |-> {"p150", "p111"}, fetal |-> {"p111", "p81"}]

StateChanged(old, new) ==
  old.heartRate # new.heartRate \/ old.status # new.status

\* the monitors rendered again after the effects of a commit: all of them
\* if an onStatusChange changed App's state, else those whose own state
\* changed
Rerendered(old, new) ==
  IF \E s \in Signals : old[s].status # new[s].status THEN Signals
  ELSE {s \in Signals : StateChanged(old[s], new[s])}

\* the same where each monitor is the only one App renders
AloneRerendered(old, new) ==
  {s \in Signals : StateChanged(old[s], new[s])}

\* the interval callback appends a point; App and both monitors are
\* rendered with the new ekgData and the rate effects run
PairAcquire(wm, wf, dt) ==
  /\ acquisitions < MaxAcquisitions
  /\ rerender = {} /\ aloneRerender = {}
  /\ LET t == pairNow + dt
         w == [maternal |-> wm, fetal |-> wf]
         after == [s \in Signals |->
                     AfterEffect([monitors[s] EXCEPT !.data = w[s]], s, t)]
         afterAlone == [s \in Signals |->
                          AfterEffect([alone[s] EXCEPT !.data = w[s]], s, t)]
     IN  /\ pairNow' = t
         /\ monitors' = after
         /\ alone' = afterAlone
         /\ rerender' = Rerendered(monitors, after)
         /\ aloneRerender' = AloneRerendered(alone, afterAlone)
  /\ acquisitions' = acquisitions + 1
  /\ pairStep' = "acquire"

\* the render caused by the state set in the latest commit: the rate
\* effects of the monitors rendered run again, on the data they have
PairRerender(d) ==
  /\ rerender \cup aloneRerender # {}
  /\ LET t == pairNow + d
         after == [s \in Signals |->
                     IF s \in rerender THEN AfterEffect(monitors[s], s, t)
                     ELSE monitors[s]]
         afterAlone == [s \in Signals |->
                          IF s \in aloneRerender THEN AfterEffect(alone[s], s, t)
                          ELSE alone[s]]
     IN  /\ pairNow' = t
         /\ monitors' = after
         /\ alone' = afterAlone
         /\ rerender' = Rerendered(monitors, after)
         /\ aloneRerender' = AloneRerendered(alone, afterAlone)
  /\ pairStep' = "rerender"
  /\ UNCHANGED acquisitions

pairIdle == <<monitorVars, appVars, sessionVars, filterVars>>

NextPair ==
  \/ \E wm \in FieldWindows.maternal, wf \in FieldWindows.fetal, dt \in PairSteps :
       PairAcquire(wm, wf, dt) /\ UNCHANGED pairIdle
  \/ \E d \in RenderDelays : PairRerender(d) /\ UNCHANGED pairIdle

InitPair ==
  /\ type = "fetal"
  /\ activeScenario = "normal-fetal"
  /\ InitMonitor
  /\ strictMode = FALSE
  /\ InitApp
  /\ InitOthers

SpecPair == InitPair /\ [][NextPair]_vars

(***************************************************************************)
(* Properties.                                                             *)
(***************************************************************************)
Updated == lastRun = "update"

LastEntry == abnormalStatusHistory[Len(abnormalStatusHistory)]

\* the current unbroken run of instantaneous-critical updates has lasted ms
CriticalRunLasted(ms) == critSince # -1 /\ now - critSince >= ms

\* C1: an update emits Critical only if the instantaneous classification has
\* been Critical continuously for at least 5000 ms (a critical update at least
\* 5000 ms earlier and no non-critical update since).
C1_CriticalOnlyWhenSustained ==
  (Updated /\ status = "critical") => CriticalRunLasted(5000)

\* C2: when every update over a span of at least 5000 ms was instantaneously
\* Critical, the update at the end of the span emits Critical.
C2_SustainedCriticalEmitsCritical ==
  (Updated /\ CriticalRunLasted(5000)) => status = "critical"

\* a critical run that began after a non-critical reading still retained, was
\* first reported as Warning and has now lasted 5000 ms
C2_Witness ==
  /\ Updated
  /\ CriticalRunLasted(5000)
  /\ status = "critical"
  /\ Len(abnormalStatusHistory) >= 3
  /\ abnormalStatusHistory[1].status = "normal"
  /\ abnormalStatusHistory[1].timestamp + 5000 > critSince

\* C3: in the intermittent-spike scenario (135, 135, 185, 185, ... at one
\* update per second on the fetal profile) every update emits Normal.
C3_IntermittentSpikeStaysNormal ==
  (activeScenario = "intermittent-spike" /\ Updated) => status = "normal"

\* C4: an update that emits Critical follows an update that emitted Warning
\* or Critical: the emitted status never goes from Normal straight to Critical.
C4_NoJumpFromNormalToCritical ==
  [][(effects' = effects + 1 /\ lastRun' = "update" /\ status' = "critical"
        /\ abnormalStatusHistory # <<>>)
       => status \in {"warning", "critical"}]_vars

\* the rate num / den lies within [lo, hi]
RateWithin(r, lo, hi) == lo * r.den <= r.num /\ r.num <= hi * r.den

StatedClassification(r, th) ==
  CASE r.num < th.criticalLow * r.den \/ r.num > th.criticalHigh * r.den -> "critical"
    [] ~(r.num < th.criticalLow * r.den \/ r.num > th.criticalHigh * r.den)
       /\ (r.num < th.warningLow * r.den \/ r.num > th.warningHigh * r.den) -> "warning"
    [] OTHER -> "normal"

FetalExampleIsNormal == InstantaneousStatus(110, 1, Thresholds("fetal")) = "normal"

NoEstimateWindow(n) ==
  \/ WindowTable[n].len < 100
  \/ WindowTable[n].hi \cup WindowTable[n].lo = {}
  \/ Cardinality(WindowTable[n].hi) < 2

\* C8: for a window of fewer than 100 samples, an all-zero window or one with
\* too few beat intervals, the estimate is an explicit "no estimate": never
\* 0 BPM, and the monitor does not keep presenting the previous rate.
C8_NoEstimateIsExplicit ==
  /\ (storedBPM # <<>> /\ NoEstimateWindow(data)) => storedBPM[1] # 0
  /\ (lastRun # "none" /\ NoEstimateWindow(rendered)) => heartRate = 0

\* C9: every rate that is stored or passed to the classifier lies between 30
\* and 300 BPM.
C9_RatesArePlausible ==
  /\ (storedBPM # <<>> /\ storedBPM[1] # 0) => (30 <= storedBPM[1] /\ storedBPM[1] <= 300)
  /\ Updated => RateWithin(bpm, 30, 300)

\* |num / den - 15000 / period| <= 2
Within2(num, den, period) ==
  LET diff == num * period - 60 * SamplesPerSecond * den
  IN  diff <= 2 * period * den /\ -diff <= 2 * period * den

\* a window of at least 100 samples (the estimator's contract) that holds one
\* isolated peak every period samples and nothing else
IsolatedTrain(n) ==
  /\ WindowTable[n].len >= 100
  /\ WindowTable[n].period > 0
  /\ WindowTable[n].lo = {}

\* ... with a spacing strictly between 0.2 s and 2 s and with at least two of
\* its peaks inside the scanned range
EstimableTrain(n) ==
  LET w == WindowTable[n]
  IN  /\ IsolatedTrain(n)
      /\ 50 < w.period /\ w.period < 500
      /\ Cardinality(w.hi \cap (10..(w.len - 11))) >= 2

AllHanded(s) == \A h \in handed : h.stage = s

HoldsMostRecent(w, n) ==
  /\ Len(w) = (IF n < 1250 THEN n ELSE 1250)
  /\ \A i \in 1..Len(w) : w[i] = produced - Len(w) + i

\* C12: the display window and each BPM calculation window hold at most 1250
\* samples, and they are exactly the most recently appended ones in arrival
\* order.
C12_WindowsHoldMostRecent ==
  /\ HoldsMostRecent(ekgData, since.ekgData)
  /\ HoldsMostRecent(bpmCalculationWindow.maternal, since.maternal)
  /\ HoldsMostRecent(bpmCalculationWindow.fetal, since.fetal)

\* the same, for a build without StrictMode's development checks
WindowsHoldMostRecentInProduction == ~strictMode => C12_WindowsHoldMostRecent


\* C13: when the first update of a restarted session runs, the classification
\* history holds no entry recorded during an earlier session.
C13_HistoryResetOnRestart ==
  (Updated /\ sessionNo >= 2 /\ updatesInSession = 1) => stale = 0


\* C14: a filter chain that processed arbitrary samples and was then reset
\* gives, for every input sequence, exactly the outputs of a newly constructed
\* one: from the reset on it has the same state and returns the same values.
C14_ResetEqualsFresh ==
  wasReset => (processor = twin /\ filtered = twinFiltered)

\* after samples that left the delay lines and the median buffer non-zero, a
\* reset, and at least five samples more (the median filter is active)
C14_Witness ==
  /\ wasReset
  /\ ~nonFinite
  /\ fed = MaxSamples
  /\ IsFinite(processor.highpassFilterState.y2)
  /\ Len(processor.buffer) = MedianWindow
  /\ processor.highpassFilterState.y2 # 0
  /\ processor = twin
  /\ filtered = twinFiltered
  /\ filtered # 0


\* the delay line of a recursive stage holds finite values only
SectionFinite(state) ==
  /\ IsFinite(state.x1) /\ IsFinite(state.x2)
  /\ IsFinite(state.y1) /\ IsFinite(state.y2)

StateFinite(p) ==
  /\ SectionFinite(p.notchFilterState)
  /\ SectionFinite(p.lowpassFilterState)
  /\ SectionFinite(p.highpassFilterState)
  /\ \A i \in 1..Len(p.buffer) : IsFinite(p.buffer[i])

\* C15: a processSample call with a non-finite sample leaves the delay lines
\* of the three recursive stages and the median buffer finite, so that every
\* later finite sample yields a finite output.
C15_NonFiniteInputLeavesStateFinite ==
  /\ StateFinite(processor)
  /\ IsFinite(sample) => IsFinite(filtered)

Abs(v) == IF v < 0 THEN -v ELSE v

\* both poles of the recursive stage lie inside the unit circle
Stable(state) ==
  /\ Abs(state.a2) < CoefScale
  /\ Abs(state.a1) < CoefScale + state.a2

C18_ProductionAppendsArduinoOnly ==
  \A p \in appended : p.production => p.source = "arduino"

\* points were appended in development mode from a file or the generator,
\* and, after the switch to production mode, from the Arduino
C18_Witness ==
  /\ \E p \in appended : ~p.production /\ p.source \in {"raw", "simulated"}
  /\ \E p \in appended : p.production /\ p.source = "arduino"
  /\ ~isDevelopmentMode

\* C19: monitoring is never on while development mode is off and the serial
\* connection is not established.
C19_NoProductionMonitoringWithoutArduino ==
  isMonitoring => (isDevelopmentMode \/ isConnected)



\* C17: the status a monitor emits for a new data point is the status the
\* same monitor emits when the other signal is not processed at all.
C17_StatusesAsIfAlone ==
  pairStep = "acquire" =>
    \A s \in Signals : monitors[s].status = alone[s].status



\* the timestamp of the most recent entry of h among those at the indices
\* hits, and the start of the retained window when there is none
MostRecentReference(h, hits, t) ==
  IF hits = {} THEN t - RetentionMs ELSE h[MaxOf(hits)].timestamp

\* entries before the one the update has just appended
Earlier(h) == 1..(Len(h) - 1)

\* C21: an update whose instantaneous classification is Critical emits
\* Critical if at least 5000 ms have passed since the most recent entry of
\* the history that is not Critical (since the start of the retained window
\* if there is none), and Warning otherwise.
C21_CriticalSinceMostRecentNonCritical ==
  (Updated /\ LastEntry.status = "critical") =>
    LET h == abnormalStatusHistory
        reference == MostRecentReference(h, {i \in Earlier(h) : NotCritical(h[i])}, now)
    IN  status = IF now - reference >= CriticalSustainMs THEN "critical" ELSE "warning"

\* C22: an update whose instantaneous classification is Warning emits Warning
\* if at least 3000 ms have passed since the most recent Normal entry of the
\* history (since the start of the retained window if there is none), and
\* Normal otherwise.
C22_WarningSinceMostRecentNormal ==
  (Updated /\ LastEntry.status = "warning") =>
    LET h == abnormalStatusHistory
        reference == MostRecentReference(h, {i \in Earlier(h) : IsNormal(h[i])}, now)
    IN  status = IF now - reference >= WarningSustainMs THEN "warning" ELSE "normal"

Severity(s) == CASE s = "normal" -> 0 [] s = "warning" -> 1 [] s = "critical" -> 2

\* C23: the status an update emits is never more severe than the
\* instantaneous classification of that update.
C23_EmittedNotMoreSevere ==
  Updated => Severity(status) <= Severity(LastEntry.status)

\* a critical reading reported as Warning while the alarm builds up, after a
\* normal one
C23_Witness ==
  /\ Updated
  /\ LastEntry.status = "critical"
  /\ status = "warning"
  /\ Len(abnormalStatusHistory) >= 2
  /\ abnormalStatusHistory[1].status = "normal"

\* C24: after an update the history is ordered by non-decreasing timestamp,
\* ends with the entry (instantaneous, now) and holds no entry older than
\* now - 10000 ms.
C24_HistoryOrderedAndPruned ==
  Updated =>
    LET h == abnormalStatusHistory
    IN  /\ h # <<>>
        /\ LastEntry.timestamp = now
        /\ LastEntry.status = InstantaneousStatus(bpm.num, bpm.den, Thresholds(type))
        /\ \A i \in 1..(Len(h) - 1) : h[i].timestamp <= h[i + 1].timestamp
        /\ \A i \in 1..Len(h) : h[i].timestamp >= now - RetentionMs
        /\ Len(h) <= effects

\* the third update has dropped the first entry, more than 10 s old, and
\* kept the second
C24_Witness ==
  /\ Updated
  /\ effects = 3
  /\ Len(abnormalStatusHistory) = 2
  /\ abnormalStatusHistory[1].timestamp < now
  /\ abnormalStatusHistory[1].timestamp > StartTime



\* a window whose tall samples are isolated (no two adjacent) and that holds
\* no small ones: its peaks are the tall samples inside the scanned range
Spiky(n) ==
  /\ WindowTable[n].lo = {}
  /\ WindowTable[n].mid = {}
  /\ \A i \in WindowTable[n].hi : (i + 1) \notin WindowTable[n].hi

DescribedPeaks(n) ==
  WindowTable[n].hi \cap (Margin..(WindowTable[n].len - Margin - 1))

\* the intervals between consecutive peaks of a spiky window that lie
\* strictly between 0.2 s and 2 s, each named by the peak that ends it
SurvivingIntervals(n) ==
  {b \in DescribedPeaks(n) :
     \E a \in DescribedPeaks(n) :
        /\ a < b
        /\ \A c \in DescribedPeaks(n) : ~(a < c /\ c < b)
        /\ 5 * (b - a) > SamplesPerSecond
        /\ b - a < 2 * SamplesPerSecond}

SymmetricMaximum(s, i) ==
  /\ 2 * s[i + 1] > MaxOf(Range(s))
  /\ \A k \in (i - Margin)..(i + Margin) : s[k + 1] <= s[i + 1]

\* C26: every index the peak scan reports holds a sample strictly above 50%
\* of the window's maximum and no sample from i - 10 to i + 10 inclusive
\* exceeds it.
C26_PeaksAreSymmetricMaxima ==
  lastRun # "none" =>
    \A i \in Range(EstimateTable[rendered].peaks) :
       SymmetricMaximum(SliceLast(SignalOf(rendered), WindowSamples), i)



\* m is a median of the five values of b: at least three are at most m and
\* at least three are at least m
IsMedianOfFive(m, b) ==
  /\ Len(b) = MedianWindow
  /\ m \in Range(b)
  /\ Cardinality({i \in 1..Len(b) : b[i] <= m}) >= 3
  /\ Cardinality({i \in 1..Len(b) : b[i] >= m}) >= 3

\* the buffer, filled up to five values with zeros in front
ZeroPadded(b) ==
  [i \in 1..MedianWindow |->
     IF i <= MedianWindow - Len(b) THEN 0 ELSE b[i - (MedianWindow - Len(b))]]

AllFinite(b) == \A i \in 1..Len(b) : IsFinite(b[i])

\* C27 as stated: the value processSample returns is the median of the five
\* most recent outputs of the high-pass stage, where the slots not filled
\* since construction or reset count as zeros, and the buffer never holds
\* more than five values.
C27_MedianOfZeroPaddedFive ==
  /\ Len(processor.buffer) <= MedianWindow
  /\ (processor.buffer # <<>> /\ AllFinite(processor.buffer))
       => IsMedianOfFive(filtered, ZeroPadded(processor.buffer))

\* C27 as amended: the buffer never holds more than five values; while it
\* holds fewer than five (the first four calls after construction or reset)
\* processSample returns the output of the high-pass stage as it is; from the
\* fifth call on it returns one of the five buffered values, their median
\* when they are all finite.
C27_MedianOnceFiveBuffered ==
  /\ Len(processor.buffer) <= MedianWindow
  /\ processor.buffer # <<>> =>
       IF Len(processor.buffer) < MedianWindow
       THEN filtered = processor.buffer[Len(processor.buffer)]
       ELSE /\ filtered \in Range(processor.buffer)
            /\ AllFinite(processor.buffer) => IsMedianOfFive(filtered, processor.buffer)

\* a full buffer of finite values whose median is not the latest of them
C27_Witness ==
  /\ Len(processor.buffer) = MedianWindow
  /\ AllFinite(processor.buffer)
  /\ IsMedianOfFive(filtered, processor.buffer)
  /\ filtered # processor.buffer[MedianWindow]
  /\ fed > MedianWindow

\* the retained inputs and outputs of a recursive stage are all 0
SectionCleared(state) ==
  state.x1 = 0 /\ state.x2 = 0 /\ state.y1 = 0 /\ state.y2 = 0

Coefficients(state) == <<state.b0, state.b1, state.b2, state.a1, state.a2>>

MemoryCleared(p) ==
  /\ p.buffer = <<>>
  /\ p.baselineBuffer = <<>>
  /\ SectionCleared(p.notchFilterState)
  /\ SectionCleared(p.lowpassFilterState)
  /\ SectionCleared(p.highpassFilterState)

\* C28: a call of reset() leaves the two retained inputs and the two retained
\* outputs of the notch, low-pass and high-pass stages at 0 and the median
\* buffer empty, whatever was processed before, and leaves the coefficients
\* of the three stages as they were.
C28_ResetClearsMemoryKeepsCoefficients ==
  [][(~wasReset /\ wasReset') =>
       /\ MemoryCleared(processor')
       /\ Coefficients(processor'.notchFilterState) = Coefficients(processor.notchFilterState)
       /\ Coefficients(processor'.lowpassFilterState) = Coefficients(processor.lowpassFilterState)
       /\ Coefficients(processor'.highpassFilterState) = Coefficients(processor.highpassFilterState)]_vars

\* reset() has just been called on a processor that had processed the most
\* samples a behaviour feeds
C28_Witness ==
  /\ wasReset
  /\ fed = MaxSamples
  /\ MemoryCleared(processor)
  /\ Coefficients(processor.notchFilterState) = Coefficients(initNotchFilter)



\* C29: while monitoring is stopped App's fetalStatus and maternalStatus are
\* normal, whatever data the window retains and however often the monitors
\* are rendered.
C29_StatusStaysNormalWhileStopped ==
  ~isMonitoring => appStatus = "normal"

\* C30: once a Clear has emptied the display window, the stored data and
\* both BPM calculation windows are empty and the sample counter is 0, and
\* from then on the BPM windows hold only samples acquired since.
C30_ClearEmptiesSessionBuffers ==
  /\ since.ekgData = 0 =>
       /\ ekgData = <<>>
       /\ storedLength = 0
       /\ bpmCalculationWindow.maternal = <<>>
       /\ bpmCalculationWindow.fetal = <<>>
       /\ sampleCounter = 0
  /\ \A w \in {"maternal", "fetal"} :
       \A i \in 1..Len(bpmCalculationWindow[w]) :
          bpmCalculationWindow[w][i] > produced - since.ekgData

=============================================================================
